---- MODULE Spec2Model ----
(***************************************************************************)
(* Model of src/streamlit.py: the Streamlit script main(), the session     *)
(* state it keeps between script runs, and process_medical_report, which   *)
(* fans the report out to three analyzer agents on a ThreadPoolExecutor,   *)
(* collects the futures with as_completed and, when no response is None,   *)
(* runs the MultidisciplinaryTeam agent.                                   *)
(*                                                                         *)
(* The agents (utils.Agents) are external: run() returns a text, returns   *)
(* None, or raises.  The user acts only between script runs.               *)
(***************************************************************************)
EXTENDS Integers, Sequences, FiniteSets, TLC

(* ---------------- Python values ---------------- *)
NoneV == [type |-> "NoneType"]
Str(s) == [type |-> "str", value |-> s]
Bool(b) == [type |-> "bool", value |-> b]
Dict(d) == [type |-> "dict", items |-> d]
\* a local name that has not been assigned
Unbound == [type |-> "unbound"]

\* bool(v): None, "", False and {} are falsy
Truthy(v) ==
    CASE v.type = "NoneType" -> FALSE
      [] v.type = "str" -> v.value # ""
      [] v.type = "bool" -> v.value
      [] v.type = "dict" -> DOMAIN v.items # {}

\* str.strip() on the texts of the model: a whitespace-only text becomes ""
Strip(s) == IF s = " " THEN "" ELSE s

(* ---------------- bounds and input sets ---------------- *)
\* the counter of calls of process_medical_report per click on Start Analysis stops here
MaxRuns == 2

\* the keys of the agents dict, in insertion order
AgentNames == <<"Cardiologist", "Psychologist", "Pulmonologist">>
Names == {AgentNames[i] : i \in 1..Len(AgentNames)}

\* texts an agent's run() can return
Texts == {"", "ok-A", "ok-C"}
\* contents of an uploaded file (the decoded text of a .txt, the page text of a .pdf)
Contents == {"", " ", "patient is stable"}
\* what the sidebar text input can hold
KeyInputs == {"", "user-key"}
\* what GOOGLE_API_KEY can be after load_dotenv
EnvKeys == {NoneV, Str(""), Str("env-key")}

\* an uploaded file: its MIME type, its content, and whether PyPDF2 can read it
Files ==
    [type : {"text/plain"}, content : Contents, readable : {TRUE}]
    \cup [type : {"application/pdf"}, content : Contents, readable : BOOLEAN]

VARIABLES
    env_key,          \* os.getenv("GOOGLE_API_KEY")
    key_input,        \* value of the sidebar text input
    uploaded_file,    \* value of st.file_uploader: NoneV or a file
    session_state,    \* st.session_state: a function on the keys that are set
    clicked,          \* the button whose click triggered the current script run
    buttons,          \* the buttons rendered by the last finished script run
    runs,             \* calls of process_medical_report since the last Start click
    pc,               \* position of the script thread
    api_key,          \* main's local api_key
    medical_report,   \* process_medical_report's argument medical_report
    agents,           \* the agents dict: name -> constructor arguments
    futures,          \* name -> future of executor.submit(get_response, name, agent)
    yielded,          \* the futures as_completed has yielded, in order
    responses,        \* the responses dict
    completed,        \* the completed counter
    progress_bar,     \* the values given to st.progress / progress_bar.progress
    warnings,         \* agent names named in an st.warning of get_response
    error,            \* the st.error emitted by process_medical_report
    raised,           \* an exception is propagating out of the with block
    team_agent,       \* constructor arguments of MultidisciplinaryTeam, or NoneV
    team_calls,       \* calls of team_agent.run() in this call
    team_running,     \* team_agent.run() has been entered and has not returned
    final_diagnosis,  \* what team_agent.run() returned
    outcome           \* the pair returned by process_medical_report, or NoneV

mainVars == <<env_key, key_input, uploaded_file, session_state, clicked, buttons, runs, api_key>>
callVars == <<medical_report, agents, futures, yielded, responses, completed, progress_bar,
              warnings, error, raised, team_agent, team_calls, team_running,
              final_diagnosis, outcome>>
vars == <<mainVars, pc, callVars>>

(* ---------------- dict helpers ---------------- *)
EmptyDict == [k \in {} |-> NoneV]

\* d[k] = v
Put(d, k, v) == [x \in DOMAIN d \cup {k} |-> IF x = k THEN v ELSE d[x]]

\* del d[k] for every k in ks
Del(d, ks) == [x \in DOMAIN d \ ks |-> d[x]]

\* session_state[k] when set
Has(k) == k \in DOMAIN session_state

(* ---------------- load_api_key and the upload ---------------- *)
\* the value load_api_key returns: the environment's key, else the sidebar input, else None
load_api_key(ek, ki) ==
    IF Truthy(ek) THEN ek
    ELSE IF Truthy(Str(ki)) THEN Str(ki)
    ELSE NoneV

\* st.session_state after load_api_key
SessionAfterLoad(ss, ek, ki) ==
    IF Truthy(load_api_key(ek, ki)) THEN Put(ss, "api_key", load_api_key(ek, ki)) ELSE ss

KeyMissingNever(k) == FALSE

\* main: if not api_key: return
KeyMissing(k) == ~Truthy(k)

\* extract_text_from_pdf: the stripped page text, None when PyPDF2 fails
extract_text_from_pdf(f) == IF f.readable THEN Str(Strip(f.content)) ELSE NoneV

\* main's medical_report_text for the uploaded file
ReportText(f) ==
    IF f = NoneV THEN NoneV
    ELSE IF f.type = "text/plain" THEN Str(f.content)
    ELSE IF f.type = "application/pdf" THEN extract_text_from_pdf(f)
    ELSE NoneV

\* main: the Start Analysis button is rendered
StartShown(text) == Truthy(text)

\* key.startswith('analysis') or key == 'medical_report'
ResetKey(k) == k = "analysis_started" \/ k = "medical_report"

(* ---------------- initial state ---------------- *)
CallInit ==
    /\ medical_report = NoneV
    /\ agents = EmptyDict
    /\ futures = EmptyDict
    /\ yielded = <<>>
    /\ responses = EmptyDict
    /\ completed = 0
    /\ progress_bar = <<>>
    /\ warnings = {}
    /\ error = "none"
    /\ raised = FALSE
    /\ team_agent = NoneV
    /\ team_calls = 0
    /\ team_running = FALSE
    /\ final_diagnosis = Unbound
    /\ outcome = NoneV

\* a fresh session: nothing uploaded, nothing typed, the script about to run
Init ==
    /\ env_key \in EnvKeys
    /\ key_input = ""
    /\ uploaded_file = NoneV
    /\ session_state = EmptyDict
    /\ clicked = "none"
    /\ buttons = {}
    /\ runs = 0
    /\ pc = "main"
    /\ api_key = NoneV
    /\ CallInit

(* ---------------- user actions, between script runs ---------------- *)
\* every widget interaction reruns the script
Interact(button) ==
    /\ pc = "idle"
    /\ clicked' = button
    /\ pc' = "main"
    /\ UNCHANGED <<env_key, session_state, buttons, runs, api_key, callVars>>

\* type into, or clear, the sidebar text input (rendered when the environment has no key)
EnterApiKey(k) ==
    /\ ~Truthy(env_key)
    /\ k # key_input
    /\ key_input' = k
    /\ Interact("none")
    /\ UNCHANGED uploaded_file

\* upload, replace or remove the file (the uploader is rendered when a key is configured)
UploadFile(f) ==
    /\ Truthy(api_key)
    /\ f # uploaded_file
    /\ uploaded_file' = f
    /\ Interact("none")
    /\ UNCHANGED key_input

ClickStart ==
    /\ "start" \in buttons
    /\ Interact("start")
    /\ UNCHANGED <<key_input, uploaded_file>>

ClickDownload ==
    /\ "download" \in buttons
    /\ Interact("download")
    /\ UNCHANGED <<key_input, uploaded_file>>

ClickReset ==
    /\ "reset" \in buttons
    /\ Interact("reset")
    /\ UNCHANGED <<key_input, uploaded_file>>

\* rerun from the menu: no widget changes
Rerun ==
    /\ Interact("none")
    /\ UNCHANGED <<key_input, uploaded_file>>

(* ---------------- main, lines 172-234 ---------------- *)
MainTop ==
    /\ pc = "main"
    /\ LET k == load_api_key(env_key, key_input)
           ss1 == SessionAfterLoad(session_state, env_key, key_input)
           text == ReportText(uploaded_file)
           startClicked == StartShown(text) /\ clicked = "start"
           ss2 == IF startClicked
                  THEN Put(Put(ss1, "analysis_started", Bool(TRUE)), "medical_report", text)
                  ELSE ss1
           started == "analysis_started" \in DOMAIN ss2 /\ Truthy(ss2["analysis_started"])
       IN  /\ api_key' = k
           /\ IF KeyMissing(k)
              THEN /\ session_state' = ss1
                   /\ buttons' = {}
                   /\ clicked' = "none"
                   /\ pc' = "idle"
                   /\ UNCHANGED <<runs, callVars>>
              ELSE /\ session_state' = ss2
                   /\ buttons' = IF StartShown(text) THEN {"start"} ELSE {}
                   /\ IF started
                      THEN /\ medical_report' = ss2["medical_report"]
                           /\ runs' = IF startClicked THEN 1 ELSE IF runs < MaxRuns THEN runs + 1 ELSE runs
                           /\ pc' = "init"
                           /\ UNCHANGED <<clicked, agents, futures, yielded, responses, completed,
                                          progress_bar, warnings, error, raised, team_agent,
                                          team_calls, team_running, final_diagnosis, outcome>>
                      ELSE /\ clicked' = "none"
                           /\ pc' = "idle"
                           /\ UNCHANGED <<runs, callVars>>
    /\ UNCHANGED <<env_key, key_input, uploaded_file>>

(* ---------------- process_medical_report, lines 89-160 ---------------- *)
Last(seq) == seq[Len(seq)]

\* the outcomes of process_medical_report
Failure == <<NoneV, NoneV>>
Success(resp, final) == <<Dict(resp), final>>

\* line 134: return None, None
AgentFailureReturn == Failure

TeamFailureTagged == <<NoneV, Str("MultidisciplinaryTeam")>>

\* line 151: return None, None
TeamFailureReturn == Failure

\* the next name executor.submit is called for, in the order of agents.items()
NextToSubmit == AgentNames[Cardinality(DOMAIN futures) + 1]

\* a future: PENDING, RUNNING, or FINISHED with a result or an exception
PendingFuture == [state |-> "PENDING", result |-> NoneV, exception |-> FALSE]

Finished(n) == n \in DOMAIN futures /\ futures[n].state = "FINISHED"

ShutdownNoWait == TRUE

\* ThreadPoolExecutor.__exit__: shutdown(wait=True) returns when no worker is left
ShutdownDone == \A n \in DOMAIN futures : futures[n].state = "FINISHED"

WarnAlways(response) == TRUE

\* get_response: if response is None: st.warning(...)
WarnIf(response) == response = NoneV

AllNone(resp) == \A n \in DOMAIN resp : resp[n] = NoneV

\* None in responses.values()
AnyNone(resp) == \E n \in DOMAIN resp : resp[n] = NoneV

Range(seq) == {seq[i] : i \in 1..Len(seq)}

LoopEndsEarly(ys) == ys # <<>>

\* as_completed(futures) is exhausted: every future has been yielded
LoopEnds(ys) == Range(ys) = DOMAIN futures

ProgressSkewed(c) == 20 + (c * 30)

\* line 128: 20 + (completed * 20)
CollectProgress(c) == 20 + (c * 20)

RecordInOrder(resp, agent_name, response) ==
    Put(resp, AgentNames[Cardinality(DOMAIN resp) + 1], response)

\* line 126: responses[agent_name] = response
Record(resp, agent_name, response) == Put(resp, agent_name, response)

TeamArgsSwapped(resp, key) ==
    [cardiologist_report |-> resp["Psychologist"],
     psychologist_report |-> resp["Cardiologist"],
     pulmonologist_report |-> resp["Pulmonologist"],
     api_key |-> key]

\* lines 140-145: the arguments of MultidisciplinaryTeam(...)
TeamArgs(resp, key) ==
    [cardiologist_report |-> resp["Cardiologist"],
     psychologist_report |-> resp["Psychologist"],
     pulmonologist_report |-> resp["Pulmonologist"],
     api_key |-> key]

\* the except clause, lines 158-160
Except ==
    /\ error' = "exception"
    /\ outcome' = Failure
    /\ raised' = FALSE
    /\ pc' = "returned"

\* lines 93-107: the progress bar, the three agents
InitAgents ==
    /\ pc = "init"
    /\ progress_bar' = <<0, 10, 20>>
    /\ agents' = [n \in Names |-> [medical_report |-> medical_report, api_key |-> api_key]]
    /\ pc' = "submit"
    /\ UNCHANGED <<mainVars, medical_report, futures, yielded, responses, completed, warnings,
                   error, raised, team_agent, team_calls, team_running, final_diagnosis, outcome>>

\* line 121: one executor.submit(get_response, name, agent)
Submit ==
    /\ pc = "submit"
    /\ futures' = Put(futures, NextToSubmit, PendingFuture)
    /\ pc' = IF DOMAIN futures' = DOMAIN agents THEN "collect" ELSE "submit"
    /\ UNCHANGED <<mainVars, medical_report, agents, yielded, responses, completed, progress_bar,
                   warnings, error, raised, team_agent, team_calls, team_running,
                   final_diagnosis, outcome>>

\* a pool thread takes the work item and enters get_response: agent.run() is called
WorkerStart(n) ==
    /\ n \in DOMAIN futures
    /\ futures[n].state = "PENDING"
    /\ futures' = [futures EXCEPT ![n].state = "RUNNING"]
    /\ UNCHANGED <<mainVars, pc, medical_report, agents, yielded, responses, completed,
                   progress_bar, warnings, error, raised, team_agent, team_calls, team_running,
                   final_diagnosis, outcome>>

\* lines 111-114: agent.run() returns response; get_response returns (agent_name, response)
WorkerReturn(n, response) ==
    /\ n \in DOMAIN futures
    /\ futures[n].state = "RUNNING"
    /\ futures' = [futures EXCEPT ![n] =
                      [state |-> "FINISHED", result |-> <<n, response>>, exception |-> FALSE]]
    /\ warnings' = IF WarnIf(response) THEN warnings \cup {n} ELSE warnings
    /\ UNCHANGED <<mainVars, pc, medical_report, agents, yielded, responses, completed,
                   progress_bar, error, raised, team_agent, team_calls, team_running,
                   final_diagnosis, outcome>>

\* agent.run() raises inside the pool thread: the future holds the exception
WorkerRaise(n) ==
    /\ n \in DOMAIN futures
    /\ futures[n].state = "RUNNING"
    /\ futures' = [futures EXCEPT ![n] =
                      [state |-> "FINISHED", result |-> NoneV, exception |-> TRUE]]
    /\ UNCHANGED <<mainVars, pc, medical_report, agents, yielded, responses, completed,
                   progress_bar, warnings, error, raised, team_agent, team_calls, team_running,
                   final_diagnosis, outcome>>

\* lines 124-129: as_completed yields a finished future; future.result() returns or raises
Collect(n) ==
    /\ pc = "collect"
    /\ Finished(n)
    /\ n \notin Range(yielded)
    /\ yielded' = Append(yielded, n)
    /\ IF futures[n].exception
       THEN /\ raised' = TRUE
            /\ pc' = "exit_with"
            /\ UNCHANGED <<responses, completed, progress_bar>>
       ELSE /\ responses' = Record(responses, futures[n].result[1], futures[n].result[2])
            /\ completed' = completed + 1
            /\ progress_bar' = Append(progress_bar, CollectProgress(completed'))
            /\ pc' = IF LoopEnds(yielded') THEN "exit_with" ELSE "collect"
            /\ UNCHANGED raised
    /\ UNCHANGED <<mainVars, medical_report, agents, futures, warnings, error, team_agent,
                   team_calls, team_running, final_diagnosis, outcome>>

\* the end of the with block (line 120): the executor is shut down, waiting for its workers
ExitWith ==
    /\ pc = "exit_with"
    /\ ShutdownDone
    /\ IF raised
       THEN /\ Except
            /\ UNCHANGED <<team_agent, team_calls, team_running>>
       ELSE /\ pc' = "check"
            /\ UNCHANGED <<error, raised, outcome, team_agent, team_calls, team_running>>
    /\ UNCHANGED <<mainVars, medical_report, agents, futures, yielded, responses, completed,
                   progress_bar, warnings, final_diagnosis>>

\* lines 132-147: the None check; then the team agent is constructed and its run() entered
Check ==
    /\ pc = "check"
    /\ IF AnyNone(responses)
       THEN /\ error' = "agents"
            /\ outcome' = AgentFailureReturn
            /\ pc' = "returned"
            /\ UNCHANGED <<progress_bar, team_agent, team_calls, team_running, raised>>
       ELSE IF ~(Names \subseteq DOMAIN responses)
       THEN \* responses[...] raises KeyError
            /\ progress_bar' = Append(progress_bar, 80)
            /\ Except
            /\ UNCHANGED <<team_agent, team_calls, team_running>>
       ELSE /\ progress_bar' = Append(progress_bar, 80)
            /\ team_agent' = TeamArgs(responses, api_key)
            /\ team_calls' = team_calls + 1
            /\ team_running' = TRUE
            /\ pc' = "team"
            /\ UNCHANGED <<error, outcome, raised>>
    /\ UNCHANGED <<mainVars, medical_report, agents, futures, yielded, responses, completed,
                   warnings, final_diagnosis>>

\* lines 147-156: team_agent.run() returns
TeamReturn(diagnosis) ==
    /\ pc = "team"
    /\ team_running' = FALSE
    /\ final_diagnosis' = diagnosis
    /\ IF diagnosis = NoneV
       THEN /\ error' = "team"
            /\ outcome' = TeamFailureReturn
            /\ UNCHANGED progress_bar
       ELSE /\ progress_bar' = Append(progress_bar, 100)
            /\ outcome' = Success(responses, diagnosis)
            /\ UNCHANGED error
    /\ pc' = "returned"
    /\ UNCHANGED <<mainVars, medical_report, agents, futures, yielded, responses, completed,
                   warnings, raised, team_agent, team_calls>>

\* team_agent.run() raises: the except clause
TeamRaise ==
    /\ pc = "team"
    /\ team_running' = FALSE
    /\ Except
    /\ UNCHANGED <<mainVars, medical_report, agents, futures, yielded, responses, completed,
                   progress_bar, warnings, team_agent, team_calls, final_diagnosis>>

(* ---------------- main, lines 236-307 ---------------- *)
\* the results are shown when both parts of the outcome are truthy; a click on
\* Analyze Another Report is seen only then, deletes the keys and reruns the script
MainResults ==
    /\ pc = "returned"
    /\ LET shown == Truthy(outcome[1]) /\ Truthy(outcome[2])
       IN  IF shown /\ clicked = "reset"
           THEN /\ session_state' = Del(session_state, {k \in DOMAIN session_state : ResetKey(k)})
                /\ runs' = 0
                /\ buttons' = {}
                /\ pc' = "main"
           ELSE /\ buttons' = buttons \cup (IF shown THEN {"download", "reset"} ELSE {})
                /\ pc' = "idle"
                /\ UNCHANGED <<session_state, runs>>
    /\ clicked' = "none"
    /\ medical_report' = NoneV
    /\ agents' = EmptyDict
    /\ futures' = EmptyDict
    /\ yielded' = <<>>
    /\ responses' = EmptyDict
    /\ completed' = 0
    /\ progress_bar' = <<>>
    /\ warnings' = {}
    /\ error' = "none"
    /\ raised' = FALSE
    /\ team_agent' = NoneV
    /\ team_calls' = 0
    /\ team_running' = FALSE
    /\ final_diagnosis' = Unbound
    /\ outcome' = NoneV
    /\ UNCHANGED <<env_key, key_input, uploaded_file, api_key>>

(* ---------------- the specification ---------------- *)
Next ==
    \/ \E k \in KeyInputs : EnterApiKey(k)
    \/ \E f \in Files \cup {NoneV} : UploadFile(f)
    \/ ClickStart
    \/ ClickDownload
    \/ ClickReset
    \/ Rerun
    \/ MainTop
    \/ InitAgents
    \/ Submit
    \/ \E n \in Names : WorkerStart(n)
    \/ \E n \in Names : \E t \in Texts : WorkerReturn(n, Str(t))
    \/ \E n \in Names : WorkerReturn(n, NoneV)
    \/ \E n \in Names : WorkerRaise(n)
    \/ \E n \in Names : Collect(n)
    \/ ExitWith
    \/ Check
    \/ \E t \in Texts : TeamReturn(Str(t))
    \/ TeamReturn(NoneV)
    \/ TeamRaise
    \/ MainResults

Spec == Init /\ [][Next]_vars

TypeOK ==
    /\ pc \in {"idle", "main", "init", "submit", "collect", "exit_with", "check", "team", "returned"}
    /\ runs \in 0..MaxRuns
    /\ DOMAIN responses \subseteq Names
    /\ completed \in 0..3

(* ---------------- what the agents did, read off the futures ---------------- *)
\* get_response returned for n: its agent's run() did not raise
Returned(n) == Finished(n) /\ ~futures[n].exception

\* what n's run() returned
RunResult(n) == futures[n].result[2]

\* the analyzers whose run() returned None
FailedNames == {n \in Names : Returned(n) /\ RunResult(n) = NoneV}

AllReturnedText == \A n \in Names : Returned(n) /\ RunResult(n) # NoneV

InFlight(n) == n \in DOMAIN futures /\ futures[n].state # "FINISHED"

\* the analyzer names a caller can read off an outcome as failed
NamesCarried(o) ==
    {n \in Names : o[1].type = "dict" /\ n \in DOMAIN o[1].items /\ o[1].items[n] = NoneV}

NonDecreasing(seq) == \A i \in 1..Len(seq) - 1 : seq[i] <= seq[i + 1]

(* ---------------- the claims ---------------- *)

\* C1: when any analyzer's run() returned None, the team agent has not been run
\* and is not running, and the call, once it has returned, returned (None, None).
C1_NoSynthesisOnAbsence ==
    FailedNames # {} =>
        /\ team_calls = 0
        /\ ~team_running
        /\ team_agent = NoneV
        /\ pc = "returned" => outcome = Failure

\* C1 witness: only the Psychologist returned None, and the call has returned.
C1_Witness ==
    /\ pc = "returned"
    /\ FailedNames = {"Psychologist"}
    /\ Returned("Cardiologist") /\ Returned("Pulmonologist")
    /\ outcome = Failure

\* C2: when every analyzer returned a text and the team agent returned a text, the call
\* returns the responses with one entry per analyzer, each what that analyzer returned,
\* and the team's text; the team agent ran once, built from the three texts.
C2_AllSucceedGivesSuccess ==
    /\ team_calls <= 1
    /\ (pc = "returned" /\ AllReturnedText /\ final_diagnosis \notin {Unbound, NoneV}) =>
        /\ outcome = <<Dict([n \in Names |-> RunResult(n)]), final_diagnosis>>
        /\ team_calls = 1
        /\ team_agent = [cardiologist_report |-> RunResult("Cardiologist"),
                         psychologist_report |-> RunResult("Psychologist"),
                         pulmonologist_report |-> RunResult("Pulmonologist"),
                         api_key |-> api_key]

\* C2 witness: three distinct texts and a diagnosis have been returned.
C2_Witness ==
    /\ pc = "returned"
    /\ AllReturnedText
    /\ Cardinality({RunResult(n) : n \in Names}) = 3
    /\ final_diagnosis = Str("ok-A")
    /\ outcome[1].type = "dict"

\* C3: the None check, the team agent's run and a return through them happen only when
\* every analyzer has finished and is recorded in responses; while a sibling of a
\* recorded None is in flight the call is still collecting, or waiting in the
\* executor's shutdown with a sibling's exception, and has not returned.
C3_DecisionAfterAllRecorded ==
    /\ (pc \in {"check", "team"} \/ (pc = "returned" /\ error # "exception")) =>
            \A n \in Names : Finished(n) /\ n \in DOMAIN responses
    /\ team_running => \A n \in Names : Finished(n)
    /\ ((\E n \in DOMAIN responses : responses[n] = NoneV) /\ (\E m \in Names : InFlight(m))) =>
            /\ pc \in {"collect", "exit_with"}
            /\ pc = "exit_with" => raised
            /\ outcome = NoneV

\* C3 witness: a None has been recorded while a sibling is still running.
C3_Witness ==
    /\ pc = "collect"
    /\ \E n \in DOMAIN responses : responses[n] = NoneV
    /\ \E m \in Names : InFlight(m) /\ futures[m].state = "RUNNING"

C6_ProgressMonotone ==
    /\ NonDecreasing(progress_bar)
    /\ (progress_bar # <<>> /\ Last(progress_bar) = 100) =>
            pc = "returned" /\ outcome = Success(responses, final_diagnosis)
                            /\ final_diagnosis.type = "str"
    /\ (pc = "returned" /\ outcome = Failure) => Last(progress_bar) < 100

\* C6 witness: a call that returned after its team agent raised, having emitted 80 twice.
C6_Witness ==
    /\ pc = "returned"
    /\ error = "exception"
    /\ progress_bar = <<0, 10, 20, 40, 60, 80, 80>>

\* C7: every agent is constructed with a non-empty report text and a non-empty key;
\* a script run that finds no key constructs and submits nothing.
C7_NoWorkerWithEmptyInput ==
    /\ \A n \in DOMAIN agents :
            /\ agents[n].medical_report.type = "str" /\ agents[n].medical_report.value # ""
            /\ agents[n].api_key.type = "str" /\ agents[n].api_key.value # ""
    /\ pc \in {"init", "submit", "collect", "exit_with", "check", "team", "returned"} =>
            Truthy(api_key) /\ Truthy(medical_report)
    /\ ~Truthy(api_key) => DOMAIN agents = {} /\ DOMAIN futures = {}

\* C7 witness: an analysis has been started, then the key cleared and an empty file
\* uploaded; the script has run and stopped.
C7_Witness ==
    /\ pc = "idle"
    /\ Has("analysis_started")
    /\ key_input = "" /\ api_key = NoneV
    /\ uploaded_file # NoneV /\ ReportText(uploaded_file) = Str("")

\* C8 as stated: process_medical_report is called at most once per click on Start Analysis.
C8_NoAutomaticRetry == runs <= 1

\* C9: when the call has returned every analyzer has finished, and if an analyzer
\* returned None or raised, the call returned (None, None).
C9_SiblingsComplete ==
    pc = "returned" =>
        /\ \A n \in Names : Finished(n)
        /\ (\E n \in Names : futures[n].exception \/ RunResult(n) = NoneV) => outcome = Failure
        /\ (\E n \in Names : futures[n].exception) => error = "exception"

\* C9 witness: the first future yielded held an exception; both siblings returned a text.
C9_Witness ==
    /\ pc = "returned"
    /\ Len(yielded) = 1
    /\ futures[yielded[1]].exception
    /\ \A n \in Names \ {yielded[1]} : Returned(n) /\ RunResult(n) # NoneV

\* C10: every entry of responses is what the analyzer of that name returned, whatever the
\* order of completion; entries are written one per yielded future, by the collecting loop.
C10_ResponsesDeterministic ==
    /\ \A n \in DOMAIN responses : Returned(n) /\ responses[n] = RunResult(n)
    /\ DOMAIN responses \subseteq Range(yielded)
    /\ Cardinality(DOMAIN responses) = completed
    /\ (pc = "check" \/ (pc = "exit_with" /\ ~raised)) =>
            responses = [n \in Names |-> RunResult(n)]

\* C10 witness: the loop has ended after the futures completed in reverse submission order.
C10_Witness ==
    /\ pc = "check"
    /\ yielded = <<"Pulmonologist", "Psychologist", "Cardiologist">>
    /\ responses = [n \in Names |-> RunResult(n)]
    /\ Cardinality({responses[n] : n \in Names}) = 3

====
